---- MODULE Spec2Model ----
(***************************************************************************)
(* Model of the Dreamhost DNS client, src/v2/dreamhostapi.go lines 157-315 *)
(* (the variant with UpdateZoneFIle): WebGet, submitDreamhostCommand,      *)
(* UpdateZoneFIle and UpdateDNSRecord.  The HTTP server is the             *)
(* environment: every request is answered by a connection failure, a read  *)
(* failure, or a status code with a body.                                  *)
(***************************************************************************)
EXTENDS Integers, Sequences, FiniteSets, TLC

VARIABLES
    pc,            \* "idle" | "send" | "wait" | "sleep" | "done": where the running call stands
    call,          \* the exported function being run and its arguments
    zone,          \* arguments of the UpdateZoneFIle invocation in progress
    frames,        \* submitDreamhostCommand frames suspended in the recursive retry (outermost first)
    resultOfAdd,   \* UpdateDNSRecord's local resultOfAdd
    ret,           \* what the exported function returned (meaningful when pc = "done")
    events,        \* history: requests sent, responses received, sleeps, in order
    lastResp,      \* history: last HTTP response received by each UpdateZoneFIle command
    invokeRet,     \* history: what submitDreamhostCommand returned to each UpdateZoneFIle command
    records,       \* provider side: the A values the domain holds
    recordsAtCall, \* history: records when the running call started
    past           \* history: the calls that have returned, where they are recorded

vars == <<pc, call, zone, frames, resultOfAdd, ret, events, lastResp, invokeRet,
          records, recordsAtCall, past>>

---------------------------------------------------------------------------
(* Bounds of the model *)

\* requests one call of submitDreamhostCommand may issue before the model
\* stops answering 429
MaxAttempts == 3

\* calls made one after the other where the calls are recorded
MaxCalls == 2

(* Constants of the program *)
RateLimitStatus == 429
CoolDownSeconds == 600

Nil == "nil"

Domains   == {"home.example.com"}
Addresses == {"192.0.2.1", "192.0.2.2"}
ApiKeys   == {"KEY"}
Comments  == {"", "ddns"}
\* values of UpdateZoneFIle's command parameter; "purge" stands for any
\* value that is neither "add" nor "del"
ZoneCommands == {"add", "del", "purge"}
\* the callers of submitDreamhostCommand: UpdateZoneFIle by its command, and
\* GetDNSRecords
Invocations == ZoneCommands \cup {"list"}

---------------------------------------------------------------------------
(* JSON bodies.  A body is empty, non-JSON text, or a JSON value: null, an *)
(* array, or an object whose "result" and "data" members are absent, a     *)
(* string or a number; "data" may also be an array of DNS records.         *)

Absent    == [t |-> "absent", s |-> ""]
Number    == [t |-> "number", s |-> ""]
Str(s)    == [t |-> "string", s |-> s]
Records   == [t |-> "array", s |-> "records"]

Body(form, text, result, data) ==
    [form |-> form, text |-> text, result |-> result, data |-> data]

TextBody(text) == Body("text", text, Absent, Absent)
EmptyBody      == Body("empty", "", Absent, Absent)
Object(result, data) == Body("object", "", result, data)

ResultMembers == {Absent, Number, Str("success"), Str("error"), Str("pending")}
DataMembers   == {Absent, Number, Str("record_added"), Records}

Bodies ==
    {EmptyBody, TextBody("<html>"), Body("null", "", Absent, Absent),
     Body("array", "", Absent, Absent)}
    \cup {Object(r, d) : r \in ResultMembers, d \in DataMembers}

\* bodies a 429 answer carries in the model
RateLimitBodies == {TextBody("<html>"), Object(Str("success"), Str("record_added"))}

Statuses == {200, 500, RateLimitStatus}

(* What the network does with one request *)
Responses ==
    [kind : {"geterr"}, err : {"ErrConnRefused", "ErrTimeout"}, status : {0},
     body : {EmptyBody}]
    \cup [kind : {"readerr"}, err : {"ErrUnexpectedEOF"}, status : {200},
          body : {EmptyBody}]
    \cup [kind : {"ok"}, err : {Nil}, status : Statuses \ {RateLimitStatus},
          body : Bodies]
    \cup [kind : {"ok"}, err : {Nil}, status : {RateLimitStatus},
          body : RateLimitBodies]

NoResp == [kind |-> "none", err |-> Nil, status |-> 0, body |-> EmptyBody]

---------------------------------------------------------------------------
(* commandResult and json.Unmarshal into it *)

commandResult(data, result) == [Data |-> data, Result |-> result]
empty == commandResult("", "")

\* a string member is stored; an absent member leaves the zero value; a
\* member of another type is skipped and reported as UnmarshalTypeError
\* after the rest has been decoded
Member(m) == IF m.t = "string" THEN m.s ELSE ""

\* variant: an empty body is taken as nothing to decode
UnmarshalEmptyAsNull(body) ==
    CASE body.form = "text" -> [v |-> empty, err |-> "SyntaxError"]
      [] body.form \in {"empty", "null"} -> [v |-> empty, err |-> Nil]
      [] body.form = "array" -> [v |-> empty, err |-> "UnmarshalTypeError"]
      [] OTHER ->
           [v   |-> commandResult(Member(body.data), Member(body.result)),
            err |-> IF body.data.t \in {"number", "array"} \/ body.result.t = "number"
                    THEN "UnmarshalTypeError" ELSE Nil]

Unmarshal(body) ==
    CASE body.form \in {"empty", "text"} -> [v |-> empty, err |-> "SyntaxError"]
      [] body.form = "null"  -> [v |-> empty, err |-> Nil]
      [] body.form = "array" -> [v |-> empty, err |-> "UnmarshalTypeError"]
      [] OTHER ->
           [v   |-> commandResult(Member(body.data), Member(body.result)),
            err |-> IF body.data.t \in {"number", "array"} \/ body.result.t = "number"
                    THEN "UnmarshalTypeError" ELSE Nil]

(* DnsRecords and json.Unmarshal into it *)

DnsRecord ==
    [Record |-> "home.example.com", Zone |-> "example.com", Value |-> "192.0.2.1",
     Editable |-> "1", ZoneType |-> "A", Comment |-> "", AccountId |-> "1"]

DnsRecords(data, result) == [Data |-> data, Result |-> result]
emptyRecords == DnsRecords(<<>>, "")

\* the array of records is stored in Data; a data member of another type,
\* and a result that is not a string, is an UnmarshalTypeError
UnmarshalRecords(body) ==
    CASE body.form \in {"empty", "text"} -> [v |-> emptyRecords, err |-> "SyntaxError"]
      [] body.form = "null"  -> [v |-> emptyRecords, err |-> Nil]
      [] body.form = "array" -> [v |-> emptyRecords, err |-> "UnmarshalTypeError"]
      [] OTHER ->
           [v   |-> DnsRecords(IF body.data.t = "array" THEN <<DnsRecord>> ELSE <<>>,
                               Member(body.result)),
            err |-> IF body.data.t \in {"number", "string"} \/ body.result.t = "number"
                    THEN "UnmarshalTypeError" ELSE Nil]

---------------------------------------------------------------------------
(* WebGet: body, status code, error *)
WebGet(resp) ==
    CASE resp.kind = "geterr" ->
           [body |-> TextBody("Error accessing URL"), status |-> 0, err |-> resp.err]
      [] resp.kind = "readerr" ->
           [body |-> TextBody("Error reading response"), status |-> 0, err |-> resp.err]
      [] OTHER ->
           [body |-> resp.body, status |-> resp.status, err |-> Nil]

(* submitDreamhostCommand *)

\* variant: the format directive is left out
QueryParametersNoFormat(command, apiKey) ==
    [k \in {"key"} \cup DOMAIN command |->
        (IF k = "key" THEN <<apiKey>> ELSE <<>>)
        \o (IF k \in DOMAIN command THEN <<command[k]>> ELSE <<>>)]

\* url.Values built from the key, the command map and format=json;
\* Encode sorts by key, so the map is the URL
QueryParameters(command, apiKey) ==
    [k \in {"key"} \cup DOMAIN command \cup {"format"} |->
        (IF k = "key" THEN <<apiKey>> ELSE <<>>)
        \o (IF k \in DOMAIN command THEN <<command[k]>> ELSE <<>>)
        \o (IF k = "format" THEN <<"json">> ELSE <<>>)]

\* variant: every status above 299 is retried
RetriesAfterAnyFailure(got) == got.err = Nil /\ got.status > 299

\* the frame sleeps and calls itself again
RetriesAfter(got) == got.err = Nil /\ got.status = RateLimitStatus

\* variant: the retried call's result is dropped (as in lines 82-87)
ReturnOwnAfterRetry(own, inner) == own

\* what a frame returns once its recursive call has returned `inner`;
\* `own` is what the frame's own WebGet gave
ReturnAfterRetry(own, inner) == inner

\* the value handed back through all suspended frames, innermost first
RECURSIVE Unwind(_, _)
Unwind(fs, v) ==
    IF fs = <<>> THEN v
    ELSE Unwind(SubSeq(fs, 1, Len(fs) - 1), ReturnAfterRetry(fs[Len(fs)], v))

(* GetDNSRecords *)

\* variant: the result member is not looked at (as in lines 91-105)
GetDNSRecordsReturnUnchecked(response, err) ==
    IF err # Nil THEN [records |-> emptyRecords, err |-> err]
    ELSE IF UnmarshalRecords(response).err # Nil
    THEN [records |-> emptyRecords, err |-> UnmarshalRecords(response).err]
    ELSE [records |-> UnmarshalRecords(response).v, err |-> Nil]

\* from submitDreamhostCommand's return to GetDNSRecords'
GetDNSRecordsReturn(response, err) ==
    IF err # Nil THEN [records |-> emptyRecords, err |-> err]
    ELSE IF UnmarshalRecords(response).err # Nil
    THEN [records |-> emptyRecords, err |-> UnmarshalRecords(response).err]
    ELSE IF UnmarshalRecords(response).v.Result # "success"
    THEN [records |-> emptyRecords, err |-> Nil]
    ELSE [records |-> UnmarshalRecords(response).v, err |-> Nil]

---------------------------------------------------------------------------
(* UpdateZoneFIle *)

WithoutKey(m, key) == [k \in DOMAIN m \ {key} |-> m[k]]

\* variant: the comment entry is kept when the comment is empty
CommandOptionsKeepingComment(command, domain, IPAddress, comment) ==
    CASE command = "add" ->
           [cmd |-> "dns-add_record", record |-> domain, type |-> "A",
            value |-> IPAddress, comment |-> comment]
      [] command = "del" ->
           [cmd |-> "dns-remove_record", record |-> domain, type |-> "A",
            value |-> IPAddress, comment |-> comment]
      [] OTHER -> <<>>

\* a nil map for any other command: delete and range over it do nothing
CommandOptions(command, domain, IPAddress, comment) ==
    LET chosen ==
          CASE command = "add" ->
                 [cmd |-> "dns-add_record", record |-> domain, type |-> "A",
                  value |-> IPAddress, comment |-> comment]
            [] command = "del" ->
                 [cmd |-> "dns-remove_record", record |-> domain, type |-> "A",
                  value |-> IPAddress, comment |-> comment]
            [] OTHER -> <<>>
    IN IF comment = "" THEN WithoutKey(chosen, "comment") ELSE chosen

\* variant: a result of "error" becomes a DreamhostAPIError (as in lines 119-122)
UpdateZoneFIleReturnApiError(response, err) ==
    IF err # Nil THEN [updateResult |-> empty, err |-> err]
    ELSE IF Unmarshal(response).err = Nil /\ Unmarshal(response).v.Result = "error"
    THEN [updateResult |-> Unmarshal(response).v,
          err |-> "DreamhostAPIError"]
    ELSE [updateResult |-> Unmarshal(response).v, err |-> Unmarshal(response).err]

\* variant: anything but a success comes back as the empty struct
UpdateZoneFIleReturnOnlySuccess(response, err) ==
    IF err # Nil THEN [updateResult |-> empty, err |-> err]
    ELSE IF Unmarshal(response).v.Result # "success"
    THEN [updateResult |-> empty, err |-> Unmarshal(response).err]
    ELSE [updateResult |-> Unmarshal(response).v, err |-> Unmarshal(response).err]

\* from submitDreamhostCommand's return to UpdateZoneFIle's
UpdateZoneFIleReturn(response, err) ==
    IF err # Nil THEN [updateResult |-> empty, err |-> err]
    ELSE [updateResult |-> Unmarshal(response).v, err |-> Unmarshal(response).err]

\* variant: the add turns a result of "error" into an error and the remove
\* does not (as AddDNSRecord and DeleteDNSRecord, lines 119-122 and 137-140)
UpdateZoneFIleResultAsymmetric(command, response, err) ==
    IF command = "add" THEN UpdateZoneFIleReturnApiError(response, err)
    ELSE UpdateZoneFIleReturn(response, err)

\* UpdateZoneFIle(command, ...) from submitDreamhostCommand's return on: the
\* command decides the request only
UpdateZoneFIleResult(command, response, err) ==
    UpdateZoneFIleReturn(response, err)

(* UpdateDNSRecord *)

\* variant: only an error stops the delete (as in lines 146-150)
DeletesUnlessError(added, err) == err = Nil

\* after the add: return, or go on to the delete
DeletesAfterAdd(added, err) == err = Nil /\ added.Result = "success"

\* variant: the add's struct is returned with the error
ReturnAfterAddKeeping(added, err) ==
    [resultOfAdd |-> added, resultOfDelete |-> empty, err |-> err]

ReturnAfterAdd(added, err) ==
    IF err # Nil
    THEN [resultOfAdd |-> empty, resultOfDelete |-> empty, err |-> err]
    ELSE [resultOfAdd |-> added, resultOfDelete |-> empty, err |-> err]

\* variant: a rejected delete is reported as no delete
ReturnAfterDeleteOnlySuccess(added, deleted, err) ==
    [resultOfAdd |-> added,
     resultOfDelete |-> IF deleted.Result = "success" THEN deleted ELSE empty,
     err |-> err]

ReturnAfterDelete(added, deleted, err) ==
    [resultOfAdd |-> added, resultOfDelete |-> deleted, err |-> err]

---------------------------------------------------------------------------
NoCall == [fn |-> "none"]
NoZone == [command |-> "none"]
NoInvoke == [response |-> EmptyBody, err |-> "pending"]
NoRet == [pending |-> TRUE]

Fresh ==
    /\ frames = <<>>
    /\ resultOfAdd = empty
    /\ ret = NoRet
    /\ events = <<>>
    /\ lastResp = [c \in Invocations |-> NoResp]
    /\ invokeRet = [c \in Invocations |-> NoInvoke]

Init ==
    /\ pc = "idle"
    /\ call = NoCall
    /\ zone = NoZone
    /\ Fresh
    /\ records = {}
    /\ recordsAtCall = {}
    /\ past = <<>>

---------------------------------------------------------------------------
(* Calls of the exported functions *)

CallUpdateDNSRecord(domain, currentIP, newIPAddress, apiKey, comment) ==
    /\ pc = "idle"
    /\ call' = [fn |-> "UpdateDNSRecord", domain |-> domain, currentIP |-> currentIP,
                newIPAddress |-> newIPAddress, apiKey |-> apiKey, comment |-> comment]
    /\ zone' = [command |-> "add", domain |-> domain, IPAddress |-> newIPAddress,
                apiKey |-> apiKey, comment |-> comment]
    /\ pc' = "send"
    /\ recordsAtCall' = records
    /\ UNCHANGED <<frames, resultOfAdd, ret, events, lastResp, invokeRet, records,
                   past>>

CallUpdateZoneFIle(command, domain, IPAddress, apiKey, comment) ==
    /\ pc = "idle"
    /\ call' = [fn |-> "UpdateZoneFIle", command |-> command, domain |-> domain,
                IPAddress |-> IPAddress, apiKey |-> apiKey, comment |-> comment]
    /\ zone' = [command |-> command, domain |-> domain, IPAddress |-> IPAddress,
                apiKey |-> apiKey, comment |-> comment]
    /\ pc' = "send"
    /\ recordsAtCall' = records
    /\ UNCHANGED <<frames, resultOfAdd, ret, events, lastResp, invokeRet, records,
                   past>>

CallGetDNSRecords(apiKey) ==
    /\ pc = "idle"
    /\ call' = [fn |-> "GetDNSRecords", apiKey |-> apiKey]
    /\ zone' = [command |-> "list", domain |-> "", IPAddress |-> "",
                apiKey |-> apiKey, comment |-> ""]
    /\ pc' = "send"
    /\ recordsAtCall' = records
    /\ UNCHANGED <<frames, resultOfAdd, ret, events, lastResp, invokeRet, records,
                   past>>

\* the command map the caller hands to submitDreamhostCommand
CommandMap(z) ==
    IF z.command = "list" THEN [cmd |-> "dns-list_records"]
    ELSE CommandOptions(z.command, z.domain, z.IPAddress, z.comment)

(* submitDreamhostCommand builds the URL and WebGet sends the request *)
SendRequest ==
    /\ pc = "send"
    /\ events' = Append(events,
          [e |-> "request", command |-> zone.command,
           url |-> QueryParameters(CommandMap(zone), zone.apiKey)])
    /\ pc' = "wait"
    /\ UNCHANGED <<call, zone, frames, resultOfAdd, ret, lastResp, invokeRet,
                   records, recordsAtCall, past>>

\* variant: the delete is given the new address
ZoneReturnsDeletingNew(z) ==
    IF call.fn = "UpdateZoneFIle"
    THEN /\ pc' = "done"
         /\ ret' = z
         /\ UNCHANGED <<zone, resultOfAdd>>
    ELSE IF zone.command = "add"
    THEN IF DeletesAfterAdd(z.updateResult, z.err)
         THEN /\ pc' = "send"
              /\ resultOfAdd' = z.updateResult
              /\ zone' = [command |-> "del", domain |-> call.domain,
                          IPAddress |-> call.newIPAddress, apiKey |-> call.apiKey,
                          comment |-> call.comment]
              /\ UNCHANGED ret
         ELSE /\ pc' = "done"
              /\ resultOfAdd' = z.updateResult
              /\ ret' = ReturnAfterAdd(z.updateResult, z.err)
              /\ UNCHANGED zone
    ELSE /\ pc' = "done"
         /\ ret' = ReturnAfterDelete(resultOfAdd, z.updateResult, z.err)
         /\ UNCHANGED <<zone, resultOfAdd>>

(* UpdateZoneFIle has returned z: the exported function goes on *)
ZoneReturns(z) ==
    IF call.fn = "UpdateZoneFIle"
    THEN /\ pc' = "done"
         /\ ret' = z
         /\ UNCHANGED <<zone, resultOfAdd>>
    ELSE IF zone.command = "add"
    THEN IF DeletesAfterAdd(z.updateResult, z.err)
         THEN /\ pc' = "send"
              /\ resultOfAdd' = z.updateResult
              /\ zone' = [command |-> "del", domain |-> call.domain,
                          IPAddress |-> call.currentIP, apiKey |-> call.apiKey,
                          comment |-> call.comment]
              /\ UNCHANGED ret
         ELSE /\ pc' = "done"
              /\ resultOfAdd' = z.updateResult
              /\ ret' = ReturnAfterAdd(z.updateResult, z.err)
              /\ UNCHANGED zone
    ELSE /\ pc' = "done"
         /\ ret' = ReturnAfterDelete(resultOfAdd, z.updateResult, z.err)
         /\ UNCHANGED <<zone, resultOfAdd>>

(* WebGet returns with resp; submitDreamhostCommand sleeps and retries, or *)
(* returns through every suspended frame to UpdateZoneFIle and its caller  *)
Deliver(resp) ==
    LET got == WebGet(resp)
        own == [response |-> got.body, err |-> got.err]
    IN /\ pc = "wait"
       /\ RetriesAfter(got) => Len(frames) + 1 < MaxAttempts
       /\ events' = Append(events,
             [e |-> "response", command |-> zone.command, kind |-> resp.kind,
              status |-> resp.status])
       /\ lastResp' = [lastResp EXCEPT ![zone.command] = resp]
       /\ IF RetriesAfter(got)
          THEN /\ pc' = "sleep"
               /\ frames' = Append(frames, own)
               /\ UNCHANGED <<zone, resultOfAdd, ret, invokeRet>>
          ELSE LET v == Unwind(frames, own)
               IN /\ frames' = <<>>
                  /\ invokeRet' = [invokeRet EXCEPT ![zone.command] = v]
                  /\ IF call.fn = "GetDNSRecords"
                     THEN /\ pc' = "done"
                          /\ ret' = GetDNSRecordsReturn(v.response, v.err)
                          /\ UNCHANGED <<zone, resultOfAdd>>
                     ELSE ZoneReturns(UpdateZoneFIleResult(zone.command,
                                                          v.response, v.err))
       /\ UNCHANGED <<call, recordsAtCall, past>>

\* any answer of the network
Receive ==
    \E resp \in Responses : Deliver(resp) /\ UNCHANGED records

\* time.Sleep, then the recursive call
Sleep ==
    /\ pc = "sleep"
    /\ events' = Append(events,
          [e |-> "sleep", command |-> zone.command, seconds |-> CoolDownSeconds])
    /\ pc' = "send"
    /\ UNCHANGED <<call, zone, frames, resultOfAdd, ret, lastResp, invokeRet,
                   records, recordsAtCall, past>>

\* the caller has the result; the package keeps no state between calls
Return ==
    /\ pc = "done"
    /\ pc' = "idle"
    /\ call' = NoCall
    /\ zone' = NoZone
    /\ frames' = <<>>
    /\ resultOfAdd' = empty
    /\ ret' = NoRet
    /\ events' = <<>>
    /\ lastResp' = [c \in Invocations |-> NoResp]
    /\ invokeRet' = [c \in Invocations |-> NoInvoke]
    /\ recordsAtCall' = {}
    /\ UNCHANGED <<records, past>>

Next ==
    \/ \E d \in Domains, cur \in Addresses, new \in Addresses, k \in ApiKeys,
          c \in Comments : CallUpdateDNSRecord(d, cur, new, k, c)
    \/ \E cmd \in ZoneCommands, d \in Domains, ip \in Addresses, k \in ApiKeys,
          c \in Comments : CallUpdateZoneFIle(cmd, d, ip, k, c)
    \/ \E k \in ApiKeys : CallGetDNSRecords(k)
    \/ SendRequest
    \/ Receive
    \/ Sleep
    \/ Return

Spec == Init /\ [][Next]_vars

---------------------------------------------------------------------------
(* A provider that keeps the A values of the domain: it rejects an add of  *)
(* a value it holds and a remove of a value it does not hold.  The network *)
(* may fail before or after the provider has acted; a 429 or a 500 answer  *)
(* means the provider has not acted.                                       *)

First(url, key) == IF key \in DOMAIN url THEN url[key][1] ELSE ""

ProviderApply(url, held) ==
    LET value == First(url, "value")
    IN CASE First(url, "cmd") = "dns-add_record" ->
              IF value \in held
              THEN [records |-> held,
                    body |-> Object(Str("error"), Str("record_already_exists_remove_first"))]
              ELSE [records |-> held \cup {value},
                    body |-> Object(Str("success"), Str("record_added"))]
         [] First(url, "cmd") = "dns-remove_record" ->
              IF value \in held
              THEN [records |-> held \ {value},
                    body |-> Object(Str("success"), Str("record_removed"))]
              ELSE [records |-> held,
                    body |-> Object(Str("error"), Str("no_such_record"))]
         [] OTHER ->
              [records |-> held, body |-> Object(Str("error"), Str("no_cmd"))]

ProviderAnswer ==
    LET acted == ProviderApply(events[Len(events)].url, records)
    IN /\ pc = "wait"
       /\ \/ \E resp \in {r \in Responses : r.kind # "ok"} :
                /\ Deliver(resp)
                /\ records' = records
          \/ \E resp \in {r \in Responses : r.kind # "ok"} :
                /\ Deliver(resp)
                /\ records' = acted.records
          \/ /\ Deliver([kind |-> "ok", err |-> Nil, status |-> RateLimitStatus,
                         body |-> TextBody("<html>")])
             /\ records' = records
          \/ /\ Deliver([kind |-> "ok", err |-> Nil, status |-> 500,
                         body |-> TextBody("<html>")])
             /\ records' = records
          \/ /\ Deliver([kind |-> "ok", err |-> Nil, status |-> 200,
                         body |-> acted.body])
             /\ records' = acted.records

InitProvider ==
    /\ pc = "idle"
    /\ call = NoCall
    /\ zone = NoZone
    /\ Fresh
    /\ records \in SUBSET Addresses
    /\ recordsAtCall = {}
    /\ past = <<>>

\* UpdateDNSRecord is the only writer
NextProvider ==
    \/ \E d \in Domains, cur \in Addresses, new \in Addresses, k \in ApiKeys,
          c \in Comments : CallUpdateDNSRecord(d, cur, new, k, c)
    \/ SendRequest
    \/ ProviderAnswer
    \/ Sleep
    \/ Return

SpecProvider == InitProvider /\ [][NextProvider]_vars

---------------------------------------------------------------------------
(* The same provider behind a network that does not fail, answering 200 or *)
(* 429, and a caller that adds records one call after the other; the calls *)
(* and their results are recorded.                                         *)

StubAnswer ==
    LET acted == ProviderApply(events[Len(events)].url, records)
    IN /\ pc = "wait"
       /\ \/ /\ Deliver([kind |-> "ok", err |-> Nil, status |-> RateLimitStatus,
                         body |-> TextBody("<html>")])
             /\ records' = records
          \/ /\ Deliver([kind |-> "ok", err |-> Nil, status |-> 200,
                         body |-> acted.body])
             /\ records' = acted.records

ReturnRecorded ==
    /\ pc = "done"
    /\ past' = Append(past, [call |-> call, ret |-> ret])
    /\ pc' = "idle"
    /\ call' = NoCall
    /\ zone' = NoZone
    /\ frames' = <<>>
    /\ resultOfAdd' = empty
    /\ ret' = NoRet
    /\ events' = <<>>
    /\ lastResp' = [c \in Invocations |-> NoResp]
    /\ invokeRet' = [c \in Invocations |-> NoInvoke]
    /\ recordsAtCall' = {}
    /\ UNCHANGED records

NextTwice ==
    \/ \E d \in Domains, ip \in Addresses, k \in ApiKeys, c \in Comments :
          /\ Len(past) < MaxCalls
          /\ CallUpdateZoneFIle("add", d, ip, k, c)
    \/ SendRequest
    \/ StubAnswer
    \/ Sleep
    \/ ReturnRecorded

\* the domain holds no A value at first
SpecTwice == Init /\ [][NextTwice]_vars

---------------------------------------------------------------------------
(* Reading the history *)

EventsOf(c)   == SelectSeq(events, LAMBDA x : x.command = c)
RequestsOf(c) == SelectSeq(events, LAMBDA x : x.command = c /\ x.e = "request")
AnswersOf(c)  == SelectSeq(events, LAMBDA x : x.command = c /\ x.e = "response")
SleepsOf(c)   == SelectSeq(events, LAMBDA x : x.command = c /\ x.e = "sleep")

\* submitDreamhostCommand has returned to UpdateZoneFIle(c, ...)
Returned(c) == invokeRet[c] # NoInvoke

RateLimitAnswer(x) == x.kind = "ok" /\ x.status = RateLimitStatus

\* the body is a JSON object whose members can be stored in a commandResult
Decodable(body) ==
    /\ body.form = "object"
    /\ body.result.t \in {"absent", "string"}
    /\ body.data.t \in {"absent", "string"}

\* the two members of a decodable body, as the provider wrote them
Given(body) ==
    commandResult(IF body.data.t = "string" THEN body.data.s ELSE "",
                  IF body.result.t = "string" THEN body.result.s ELSE "")

\* the provider evaluated command c and said `verdict`
Evaluated(c, verdict) ==
    /\ Returned(c)
    /\ lastResp[c].kind = "ok"
    /\ Decodable(lastResp[c].body)
    /\ lastResp[c].body.result = Str(verdict)

\* the error of command c's last answer: the transport's, or the decoder's
ErrorOf(c) ==
    IF lastResp[c].kind # "ok" THEN lastResp[c].err
    ELSE Unmarshal(lastResp[c].body).err

Replacing == call.fn = "UpdateDNSRecord"

---------------------------------------------------------------------------
(* Claims *)

\* C1: in UpdateDNSRecord a remove request is sent, and a non-empty
\* resultOfDelete is returned, only if the provider answered the add with
\* result "success"
C1_RemoveOnlyAfterSuccess ==
    Replacing =>
       /\ RequestsOf("del") # <<>> =>
             /\ Returned("add")
             /\ lastResp["add"].kind = "ok"
             /\ lastResp["add"].body.form = "object"
             /\ lastResp["add"].body.result = Str("success")
       /\ (pc = "done" /\ ret.resultOfDelete # empty) =>
             /\ lastResp["add"].kind = "ok"
             /\ lastResp["add"].body.form = "object"
             /\ lastResp["add"].body.result = Str("success")

C1_Witness ==
    /\ Replacing
    /\ pc = "done"
    /\ ret.resultOfDelete # empty
    /\ RequestsOf("del") # <<>>

\* C2: when the provider evaluates the add of UpdateDNSRecord and answers
\* result "error", UpdateDNSRecord returns that outcome as resultOfAdd, an
\* empty resultOfDelete and a nil error, and sends no remove request
C2_FailureStopsReplace ==
    (Replacing /\ Evaluated("add", "error")) =>
       /\ pc = "done"
       /\ ret = [resultOfAdd |-> Given(lastResp["add"].body),
                 resultOfDelete |-> empty, err |-> Nil]
       /\ ret.resultOfAdd.Result = "error"
       /\ RequestsOf("del") = <<>>

C2_Witness ==
    /\ Replacing
    /\ Evaluated("add", "error")
    /\ pc = "done"
    /\ ret.resultOfAdd.Data = "record_added"

\* C3: when the add of UpdateDNSRecord ends in a transport or decode error,
\* UpdateDNSRecord returns that error with both results empty and no remove
\* request is ever sent
C3_AddErrorPropagates ==
    (Replacing /\ Returned("add") /\ ErrorOf("add") # Nil) =>
       /\ pc = "done"
       /\ ret = [resultOfAdd |-> empty, resultOfDelete |-> empty,
                 err |-> ErrorOf("add")]
       /\ RequestsOf("del") = <<>>

C3_Witness ==
    /\ Replacing
    /\ pc = "done"
    /\ ret.err = "UnmarshalTypeError"
    /\ lastResp["add"].body.result = Str("success")

\* C4: when the add of UpdateDNSRecord succeeded and the remove ends in a
\* transport or decode error, UpdateDNSRecord returns that error, a
\* resultOfAdd with result "success" and an empty resultOfDelete
C4_RemoveErrorKeepsAdd ==
    (Replacing /\ pc = "done" /\ Evaluated("add", "success")
       /\ Returned("del") /\ ErrorOf("del") # Nil) =>
       /\ ret.err = ErrorOf("del")
       /\ ret.resultOfAdd.Result = "success"
       /\ ret.resultOfDelete = empty

\* C5: when the add succeeded and the provider evaluated the remove,
\* UpdateDNSRecord returns both outcomes as the provider gave them and a nil
\* error, whether the remove was accepted or rejected
C5_BothOutcomesReturned ==
    (Replacing /\ Evaluated("add", "success")) =>
       /\ pc = "done" => Returned("del")
       /\ (pc = "done" /\ ErrorOf("del") = Nil) =>
             ret = [resultOfAdd |-> Given(lastResp["add"].body),
                    resultOfDelete |-> Given(lastResp["del"].body),
                    err |-> Nil]

C5_Witness ==
    /\ Replacing
    /\ pc = "done"
    /\ Evaluated("add", "success")
    /\ Evaluated("del", "error")
    /\ ret.resultOfDelete.Result = "error"

\* C6: against the record-keeping provider, when the old address is held at
\* the start of UpdateDNSRecord the domain holds at least one A value in
\* every state of the call, and the old value is gone only once the add of
\* the new one has been confirmed and the new value is held
C6_NeverWithoutRecord ==
    (Replacing /\ call.currentIP \in recordsAtCall) =>
       /\ records # {}
       /\ call.currentIP \notin records =>
             /\ Evaluated("add", "success")
             /\ call.newIPAddress \in records

C6_Witness ==
    /\ Replacing
    /\ pc = "done"
    /\ recordsAtCall = {call.currentIP}
    /\ records = {call.newIPAddress}
    /\ call.currentIP # call.newIPAddress
    /\ Len(SleepsOf("add")) = 1

\* C7: when the first request of a submitDreamhostCommand call is answered
\* 429, the call sleeps 600 seconds and then sends the same request again;
\* when that second request is answered 200 there has been exactly one
\* sleep and the call returns the second response's body with a nil error
C7_RetryAfterRateLimit ==
    \A c \in ZoneCommands :
       LET a  == AnswersOf(c)
           ev == EventsOf(c)
       IN (Len(a) >= 1 /\ RateLimitAnswer(a[1])) =>
             /\ Len(ev) >= 3 => (ev[3].e = "sleep" /\ ev[3].seconds = 600)
             /\ Len(ev) >= 4 => (ev[4].e = "request" /\ ev[4].url = ev[1].url)
             /\ (Len(a) >= 2 /\ a[2].kind = "ok" /\ a[2].status = 200) =>
                   /\ Len(SleepsOf(c)) = 1
                   /\ Len(RequestsOf(c)) = 2
                   /\ Returned(c)
                   /\ lastResp[c].status = 200
                   /\ invokeRet[c] = [response |-> lastResp[c].body, err |-> Nil]

C7_Witness ==
    \E c \in ZoneCommands :
       /\ Len(AnswersOf(c)) = 2
       /\ RateLimitAnswer(AnswersOf(c)[1])
       /\ AnswersOf(c)[2].status = 200
       /\ invokeRet[c].response = Object(Str("error"), Absent)

\* C8: one call of submitDreamhostCommand sends at most two requests and
\* sleeps at most once, and has returned once the second request is answered
C8_AtMostOneRetry ==
    \A c \in ZoneCommands :
       /\ Len(RequestsOf(c)) <= 2
       /\ Len(SleepsOf(c)) <= 1
       /\ Len(AnswersOf(c)) = 2 => Returned(c)

\* C9: when the first request of a submitDreamhostCommand call ends in a
\* transport error or in a status other than 429, the call sends exactly
\* one request, never sleeps and has returned
C9_NoRetryOnOrdinaryFailure ==
    \A c \in ZoneCommands :
       (Len(AnswersOf(c)) >= 1 /\ ~RateLimitAnswer(AnswersOf(c)[1])) =>
          /\ Len(RequestsOf(c)) = 1
          /\ Len(AnswersOf(c)) = 1
          /\ SleepsOf(c) = <<>>
          /\ Returned(c)

C9_Witness ==
    \E c \in ZoneCommands :
       /\ Len(AnswersOf(c)) = 1
       /\ AnswersOf(c)[1].kind = "ok"
       /\ AnswersOf(c)[1].status = 500
       /\ Returned(c)

\* C10: UpdateZoneFIle("add") and UpdateZoneFIle("del") return a response
\* that decodes to result "error" as a value, with its data and a nil error;
\* they return an error only after a transport failure or a body that
\* cannot be decoded
C10_RejectionIsAValue ==
    (call.fn = "UpdateZoneFIle" /\ call.command \in {"add", "del"} /\ pc = "done") =>
       /\ Evaluated(call.command, "error") =>
             /\ ret = [updateResult |-> Given(lastResp[call.command].body),
                       err |-> Nil]
             /\ ret.updateResult.Result = "error"
       /\ ret.err # Nil =>
             \/ lastResp[call.command].kind # "ok"
             \/ ~Decodable(lastResp[call.command].body)

C10_Witness ==
    /\ call.fn = "UpdateZoneFIle"
    /\ call.command = "del"
    /\ pc = "done"
    /\ Evaluated("del", "error")
    /\ ret.updateResult = commandResult("record_added", "error")
    /\ ret.err = Nil

\* the exported function is add, remove or replace
Engine ==
    \/ call.fn = "UpdateDNSRecord"
    \/ call.fn = "UpdateZoneFIle" /\ call.command \in {"add", "del"}

\* C11: a body that is a JSON object without a result member makes add,
\* remove and replace return an error; it is never returned as an outcome
C11_MissingResultIsError ==
    (Engine /\ pc = "done"
       /\ lastResp[zone.command].kind = "ok"
       /\ lastResp[zone.command].body.form = "object"
       /\ lastResp[zone.command].body.result = Absent) =>
       ret.err # Nil

\* C12: a final response whose status is above 299 makes add, remove and
\* replace return an error; its body is never decoded into an outcome
C12_BadStatusIsError ==
    (Engine /\ pc = "done"
       /\ lastResp[zone.command].kind = "ok"
       /\ lastResp[zone.command].status > 299) =>
       ret.err # Nil

\* C13: once the command in progress has ended in a transport or decode
\* error, on the first request or on a retry after 429, the exported
\* function has returned and its error is that error
C13_ErrorsSurface ==
    (Engine /\ Returned(zone.command) /\ ErrorOf(zone.command) # Nil) =>
       /\ pc = "done"
       /\ ret.err = ErrorOf(zone.command)

C13_Witness ==
    /\ Engine
    /\ pc = "done"
    /\ Len(AnswersOf(zone.command)) = 2
    /\ RateLimitAnswer(AnswersOf(zone.command)[1])
    /\ lastResp[zone.command].kind = "geterr"
    /\ ret.err = "ErrTimeout"

\* what a command of UpdateZoneFIle returns for a final answer, whichever
\* command it is
OutcomeFor(resp) ==
    IF resp.kind # "ok" THEN [updateResult |-> empty, err |-> resp.err]
    ELSE [updateResult |-> Unmarshal(resp.body).v, err |-> Unmarshal(resp.body).err]

\* the parameters of an UpdateZoneFIle request other than cmd
SharedParameters(apiKey, domain, address, comment) ==
    IF comment = ""
    THEN [key |-> <<apiKey>>, record |-> <<domain>>, type |-> <<"A">>,
          value |-> <<address>>, format |-> <<"json">>]
    ELSE [key |-> <<apiKey>>, record |-> <<domain>>, type |-> <<"A">>,
          value |-> <<address>>, format |-> <<"json">>, comment |-> <<comment>>]

\* C14: UpdateZoneFIle("add") and UpdateZoneFIle("del") return the same
\* struct and the same error for the same final answer, and their requests
\* differ only in cmd: dns-add_record for add, dns-remove_record for del
C14_RemoveSymmetricToAdd ==
    (call.fn = "UpdateZoneFIle" /\ call.command \in {"add", "del"}) =>
       /\ pc = "done" => ret = OutcomeFor(lastResp[call.command])
       /\ \A i \in 1..Len(RequestsOf(call.command)) :
             LET url == RequestsOf(call.command)[i].url
             IN /\ "cmd" \in DOMAIN url
                /\ url["cmd"] = IF call.command = "add"
                                THEN <<"dns-add_record">>
                                ELSE <<"dns-remove_record">>
                /\ WithoutKey(url, "cmd") =
                      SharedParameters(call.apiKey, call.domain, call.IPAddress,
                                       call.comment)

C14_Witness ==
    /\ call.fn = "UpdateZoneFIle"
    /\ call.command = "del"
    /\ pc = "done"
    /\ Len(RequestsOf("del")) = 2
    /\ ret.updateResult = commandResult("record_added", "error")

\* the address a request of command c is about
Target(c) ==
    IF call.fn = "UpdateDNSRecord"
    THEN (IF c = "add" THEN call.newIPAddress ELSE call.currentIP)
    ELSE call.IPAddress

CmdName(c) == IF c = "add" THEN "dns-add_record" ELSE "dns-remove_record"

\* C16: every request holds key = the credential, format = json and the
\* entries of the command map, and nothing else; an add or remove request
\* holds type = A, record = the domain and value = the address
C16_RequestContents ==
    \A i \in 1..Len(events) :
       events[i].e = "request" =>
          LET url == events[i].url
              c   == events[i].command
              cm  == IF c = "list" THEN [cmd |-> "dns-list_records"]
                     ELSE CommandOptions(c, call.domain, Target(c), call.comment)
          IN /\ DOMAIN url = {"key", "format"} \cup DOMAIN cm
             /\ url["key"] = <<call.apiKey>>
             /\ url["format"] = <<"json">>
             /\ \A k \in DOMAIN cm : url[k] = <<cm[k]>>
             /\ c \in {"add", "del"} =>
                   /\ url["cmd"] = <<CmdName(c)>>
                   /\ WithoutKey(url, "cmd") =
                         SharedParameters(call.apiKey, call.domain, Target(c),
                                          call.comment)
             /\ c = "list" =>
                   url = [key |-> <<call.apiKey>>, cmd |-> <<"dns-list_records">>,
                          format |-> <<"json">>]
             /\ c \notin {"add", "del", "list"} =>
                   url = [key |-> <<call.apiKey>>, format |-> <<"json">>]

C16_Witness ==
    /\ Replacing
    /\ call.comment # ""
    /\ call.currentIP # call.newIPAddress
    /\ RequestsOf("del") # <<>>

\* C17: an empty body, with status 200 or not, makes add, remove and
\* replace return an error and an empty outcome for that command; when no
\* error is returned, every command that ran ended on a body that was not
\* empty
C17_EmptyBodyIsError ==
    (Engine /\ pc = "done") =>
       /\ (lastResp[zone.command].kind = "ok"
             /\ lastResp[zone.command].body.form = "empty") =>
             /\ ret.err = "SyntaxError"
             /\ call.fn = "UpdateZoneFIle" => ret.updateResult = empty
             /\ call.fn = "UpdateDNSRecord" => ret.resultOfDelete = empty
             /\ (call.fn = "UpdateDNSRecord" /\ zone.command = "add") =>
                   ret.resultOfAdd = empty
       /\ ret.err = Nil =>
             \A c \in {"add", "del"} :
                Returned(c) =>
                   /\ lastResp[c].kind = "ok"
                   /\ lastResp[c].body.form # "empty"

C17_Witness ==
    /\ Replacing
    /\ pc = "done"
    /\ zone.command = "del"
    /\ lastResp["del"].kind = "ok"
    /\ lastResp["del"].status = 500
    /\ lastResp["del"].body.form = "empty"
    /\ ret.err = "SyntaxError"

\* C18: UpdateZoneFIle returns a non-empty commandResult only when the
\* provider's result is success; after a web failure, a decode failure or
\* another result it returns the empty struct
C18_EmptyUnlessSuccess ==
    (call.fn = "UpdateZoneFIle" /\ pc = "done") =>
       (ret.updateResult # empty => Evaluated(call.command, "success"))

\* C20: UpdateDNSRecord issues at most one add command and one remove
\* command (a retry after 429 belongs to its command), the add is for the
\* new address and the remove for the old one, and the first remove request
\* follows the add's final answer and its decoding
C20_OneAddThenOneRemove ==
    Replacing =>
       /\ \A i \in 1..Len(events) :
             events[i].e = "request" =>
                /\ events[i].command \in {"add", "del"}
                /\ events[i].url["cmd"] = <<CmdName(events[i].command)>>
                /\ events[i].url["value"] =
                      <<IF events[i].command = "add" THEN call.newIPAddress
                        ELSE call.currentIP>>
       /\ \A c \in {"add", "del"} :
             /\ Len(RequestsOf(c)) <= Len(SleepsOf(c)) + 1
             /\ Len(SleepsOf(c)) <=
                   Len(SelectSeq(AnswersOf(c), RateLimitAnswer))
       /\ \A i \in 1..Len(events) : \A j \in 1..Len(events) :
             (events[i].command = "del" /\ events[j].command = "add") => j < i
       /\ RequestsOf("del") # <<>> =>
             /\ Returned("add")
             /\ ~RateLimitAnswer(AnswersOf("add")[Len(AnswersOf("add"))])
             /\ resultOfAdd = Given(lastResp["add"].body)
             /\ resultOfAdd.Result = "success"

C20_Witness ==
    /\ Replacing
    /\ pc = "done"
    /\ call.currentIP # call.newIPAddress
    /\ Len(RequestsOf("add")) = 2
    /\ Len(RequestsOf("del")) = 2

\* C19: GetDNSRecords returns the empty DnsRecords after a web failure, a
\* decode failure or a result other than "success"; it returns records only
\* when the final response, retried or not, decodes with result "success"
C19_RecordsOnlyOnSuccess ==
    (call.fn = "GetDNSRecords" /\ pc = "done") =>
       LET last == lastResp["list"]
           good == /\ last.kind = "ok"
                   /\ last.body.form = "object"
                   /\ last.body.result = Str("success")
                   /\ last.body.data.t \in {"absent", "array"}
       IN /\ ret.records # emptyRecords => (good /\ ret.err = Nil)
          /\ ~good => ret.records = emptyRecords
          /\ ret.records.Data # <<>> =>
                (last.body.data.t = "array" /\ ret.records.Data = <<DnsRecord>>)

C19_Witness ==
    /\ call.fn = "GetDNSRecords"
    /\ pc = "done"
    /\ Len(RequestsOf("list")) = 2
    /\ ret.records = DnsRecords(<<DnsRecord>>, "success")

\* C15: against the provider that rejects duplicates, the first add of an
\* address returns result "success" and every later call with the same
\* parameters returns result "error"; all of them return a nil error
C15_AddTwice ==
    \A j \in 1..Len(past) :
       /\ past[j].ret.err = Nil
       /\ (\A i \in 1..(j - 1) : past[i].call.IPAddress # past[j].call.IPAddress) =>
             past[j].ret.updateResult.Result = "success"
       /\ (\E i \in 1..(j - 1) : past[i].call = past[j].call) =>
             past[j].ret.updateResult.Result = "error"

C15_Witness ==
    /\ Len(past) = 2
    /\ past[1].call = past[2].call
    /\ past[1].ret = [updateResult |-> commandResult("record_added", "success"),
                      err |-> Nil]
    /\ past[2].ret.updateResult.Result = "error"
    /\ past[2].ret.err = Nil

\* C21: UpdateZoneFIle sends a request only for command "add" or "del",
\* with cmd = dns-add_record for "add" and cmd = dns-remove_record for
\* "del"; for any other command no request holding the credential is sent
C21_OnlyAddOrDelSends ==
    call.fn = "UpdateZoneFIle" =>
       \A i \in 1..Len(events) :
          (events[i].e = "request" /\ "key" \in DOMAIN events[i].url) =>
             /\ call.command \in {"add", "del"}
             /\ "cmd" \in DOMAIN events[i].url
             /\ events[i].url["cmd"] = <<CmdName(call.command)>>

\* C22: an add or remove request holds a comment entry exactly when the
\* comment is not empty, and then holds that comment; the add and the
\* remove of a replace hold the same comment; the rest of the request is
\* the same with and without a comment
C22_CommentIffNonEmpty ==
    call.fn \in {"UpdateDNSRecord", "UpdateZoneFIle"} =>
       \A i \in 1..Len(events) :
          (events[i].e = "request" /\ events[i].command \in {"add", "del"}) =>
             LET url == events[i].url
                 c   == events[i].command
             IN /\ ("comment" \in DOMAIN url) <=> (call.comment # "")
                /\ call.comment # "" => url["comment"] = <<call.comment>>
                /\ WithoutKey(url, "comment") =
                      [key |-> <<call.apiKey>>, cmd |-> <<CmdName(c)>>,
                       record |-> <<call.domain>>, type |-> <<"A">>,
                       value |-> <<Target(c)>>, format |-> <<"json">>]

C22_Witness ==
    /\ Replacing
    /\ call.comment = ""
    /\ RequestsOf("add") # <<>>
    /\ RequestsOf("del") # <<>>
    /\ "comment" \notin DOMAIN RequestsOf("del")[1].url

====
